---- MODULE Spec2Model ----
(***************************************************************************)
(* DeviceController (src/src/device.py) driving a hardware interface:      *)
(* the two fake doubles FakeMotionSensor and FakeContactSensor of          *)
(* src/tests/test_device.py, and hardware of other classes implementing    *)
(* AbstractHardware whose calls may return or raise at will.               *)
(*                                                                         *)
(* Python strings are TLA+ strings; "in", split and f-string formatting    *)
(* are computed on them character by character.                            *)
(***************************************************************************)
EXTENDS Integers, Sequences, FiniteSets, TLC

VARIABLES hw, ready, device_type, pc, retries, i, j, last, lifecycle,
          answer, streak

vars == <<hw, ready, device_type, pc, retries, i, j, last, lifecycle,
          answer, streak>>

(* ------------------------------ bounds --------------------------------- *)

\* ready_after of a double is drawn from 0..MaxReadyAfter (and 10)
MaxReadyAfter == 2

\* retries of a boot_device call is drawn from 0..MaxRetries
MaxRetries == 3

\* a double is powered on at most this many times in a run
MaxPowerCycles == 4

\* a double records at most this many commands in a run
MaxCommands == 3

(* ------------------------- program constants --------------------------- *)

\* for j in range(10)
PollsPerAttempt == 10

\* boot_device(self, retries=3, ...)
DefaultRetries == 3

\* FakeMotionSensor(ready_after=2), FakeContactSensor(ready_after=2)
DelayedReadyAfter == 2

\* FakeMotionSensor(ready_after=10), FakeContactSensor(ready_after=10)
FailingReadyAfter == 10

(* ------------------------------ strings -------------------------------- *)

\* Python: sub in s
Contains(sub, s) ==
    \E k \in 0..(Len(s) - Len(sub)) : SubSeq(s, k + 1, k + Len(sub)) = sub

\* index of the first occurrence of the one-character string c in s, 0 if none
RECURSIVE FindFrom(_, _, _)
FindFrom(s, c, k) ==
    IF k > Len(s) THEN 0
    ELSE IF SubSeq(s, k, k) = c THEN k
    ELSE FindFrom(s, c, k + 1)

\* Python: s.split(c) for a one-character separator c, as a sequence of strings
RECURSIVE Split(_, _)
Split(s, c) ==
    LET k == FindFrom(s, c, 1)
    IN  IF k = 0 THEN <<s>>
        ELSE <<SubSeq(s, 1, k - 1)>> \o Split(SubSeq(s, k + 1, Len(s)), c)

\* Python: f"ACK:{cmd}"
Ack(cmd) == "ACK:" \o cmd

\* Python: f"CONTACT:{state}"
ContactResponse(state) == "CONTACT:" \o state

(* ----------------------------- exceptions ------------------------------ *)

NoExc == [type |-> "none", msg |-> ""]

Exc(type, msg) == [type |-> type, msg |-> msg]

ControllerNotReady == Exc("DeviceNotReadyError", "Device is not ready.")

BootTimeout ==
    Exc("DeviceTimeoutError", "Device failed to boot within the specified timeout.")

NoMotionSupport == Exc("TypeError", "This device does not support motion detection")

NoContactSupport == Exc("TypeError", "This device does not support contact sensing")

HwNotPowered == Exc("DeviceNotReadyError", "Device is not powered on")

HwNotReady == Exc("DeviceTimeoutError", "Device is not ready")

BadContactState == Exc("ValueError", "Contact state must be either 'OPEN' or 'CLOSED'")

\* response.split(":")[1] on a response without ":"
SplitIndexError == Exc("IndexError", "list index out of range")

\* the implementation-defined error of a hardware call
HardwareError == Exc("HardwareError", "hardware fault")

(* --------------------------- returned values --------------------------- *)

None == [kind |-> "None", s |-> "", b |-> FALSE, n |-> 0]

StrVal(s) == [kind |-> "str", s |-> s, b |-> FALSE, n |-> 0]

BoolVal(b) == [kind |-> "bool", s |-> "", b |-> b, n |-> 0]

IntVal(n) == [kind |-> "int", s |-> "", b |-> FALSE, n |-> n]

(* ------------------------------ hardware ------------------------------- *)

\* FakeMotionSensor(ready_after)
FakeMotionSensor(ready_after) ==
    [cls |-> "FakeMotionSensor", _power |-> FALSE, _ready_counter |-> 0,
     _ready_after |-> ready_after, commands |-> <<>>, _motion_detected |-> FALSE]

\* FakeContactSensor(ready_after)
FakeContactSensor(ready_after) ==
    [cls |-> "FakeContactSensor", _power |-> FALSE, _ready_counter |-> 0,
     _ready_after |-> ready_after, commands |-> <<>>, _contact_state |-> "CLOSED"]

\* hardware of another class implementing AbstractHardware: no state of its
\* own is modelled, each call returns or raises at will
OtherHardware(cls) == [cls |-> cls]

FakeClasses == {"FakeMotionSensor", "FakeContactSensor"}

OtherClasses == {"MotionContactHub", "Relay"}

IsFake(h) == h.cls \in FakeClasses

ReadyAfterValues == (0..MaxReadyAfter) \cup {FailingReadyAfter}

HardwareInterfaces ==
    {FakeMotionSensor(r) : r \in ReadyAfterValues}
        \cup {FakeContactSensor(r) : r \in ReadyAfterValues}
        \cup {OtherHardware(c) : c \in OtherClasses}

\* power_on(): the hardware afterwards and the exception raised, if any
FakePowerOn(h) == [h EXCEPT !._power = TRUE, !._ready_counter = @ + 1]

PowerOnOutcomes(h) ==
    IF IsFake(h)
    THEN {[hw |-> FakePowerOn(h), exc |-> NoExc]}
    ELSE {[hw |-> h, exc |-> NoExc], [hw |-> h, exc |-> HardwareError]}

\* power_off() that also forgets the power-on count
FakePowerOffResets(h) == [h EXCEPT !._power = FALSE, !._ready_counter = 0]

\* power_off()
FakePowerOff(h) == [h EXCEPT !._power = FALSE]

PowerOffOutcomes(h) ==
    IF IsFake(h)
    THEN {[hw |-> FakePowerOff(h), exc |-> NoExc]}
    ELSE {[hw |-> h, exc |-> NoExc], [hw |-> h, exc |-> HardwareError]}

\* status()
FakeStatus(h) == IF h._ready_counter > h._ready_after THEN "READY" ELSE "BOOTING"

StatusOutcomes(h) ==
    IF IsFake(h)
    THEN {[value |-> FakeStatus(h), exc |-> NoExc]}
    ELSE {[value |-> "READY", exc |-> NoExc],
          [value |-> "BOOTING", exc |-> NoExc],
          [value |-> "", exc |-> HardwareError]}

\* send(cmd) of the two doubles
FakeSendResponse(h, cmd) ==
    IF h.cls = "FakeMotionSensor" /\ cmd = "GET_MOTION"
    THEN (IF h._motion_detected THEN "MOTION:YES" ELSE "MOTION:NO")
    ELSE IF h.cls = "FakeContactSensor" /\ cmd = "GET_CONTACT"
    THEN ContactResponse(h._contact_state)
    ELSE Ack(cmd)

FakeSend(h, cmd) ==
    IF ~h._power
    THEN [hw |-> h, value |-> "", exc |-> HwNotPowered]
    ELSE IF h._ready_counter <= h._ready_after
    THEN [hw |-> h, value |-> "", exc |-> HwNotReady]
    ELSE [hw |-> [h EXCEPT !.commands = Append(@, cmd)],
          value |-> FakeSendResponse(h, cmd), exc |-> NoExc]

\* what a hardware of another class may answer to send(cmd)
OtherResponses(cmd) ==
    {Ack(cmd), "MOTION:YES", "MOTION:NO", "CONTACT:OPEN", "CONTACT:CLOSED",
     "CONTACT:OPEN:STUCK", "BUSY"}

SendOutcomes(h, cmd) ==
    IF IsFake(h)
    THEN {FakeSend(h, cmd)}
    ELSE {[hw |-> h, value |-> v, exc |-> NoExc] : v \in OtherResponses(cmd)}
            \cup {[hw |-> h, value |-> "", exc |-> HardwareError]}

(* ------------------------------- calls --------------------------------- *)

\* a hardware call made by the controller: its name and its argument
HwCall(name, arg) == <<name, arg>>

\* what the most recent hardware call gave the controller: the value it
\* returned ("" for None) or the exception it raised
Answer(value, exc) == [value |-> value, exc |-> exc]

\* the boot_device calls made so far on a double: k calls, all with
\* retries = n >= 1 (k = 0: none yet, or calls with different retries or with
\* retries = 0, or hardware that is not a double)
Streak(n, k) == [n |-> n, k |-> k]

NoStreak == Streak(-1, 0)

\* the record of the most recent call: what was called with which argument,
\* how it ended ("running" until boot_device ends, then "return" or "raise"),
\* the exception or the value it ended with, and the hardware calls it made
Call(op, arg, outcome, exc, value, calls) ==
    [op |-> op, arg |-> arg, outcome |-> outcome,
     exc |-> exc, value |-> value, calls |-> calls]

Returned(op, arg, value, calls) == Call(op, arg, "return", NoExc, value, calls)

Raised(op, arg, exc, calls) == Call(op, arg, "raise", exc, None, calls)

Commands == {"PING", "GET_MOTION"}

ContactStates == {"OPEN", "CLOSED", "INVALID"}

\* the double stays within the bounds of the model
Fits(h) == IsFake(h) => Len(h.commands) <= MaxCommands

(* ------------------------------ __init__ ------------------------------- *)

Init ==
    /\ hw \in HardwareInterfaces
    /\ ready = FALSE
    /\ device_type = hw.cls
    /\ pc = "idle"
    /\ retries = 0
    /\ i = 0
    /\ j = 0
    /\ last = Returned("__init__", None, None, <<>>)
    /\ lifecycle = "constructed"
    /\ answer = Answer("", NoExc)
    /\ streak = Streak(0, 0)

(* ----------------------------- boot_device ----------------------------- *)

\* raise DeviceTimeoutError after the loop over the attempts
BootFails(calls) ==
    /\ pc' = "idle"
    /\ last' = Raised("boot_device", last.arg, BootTimeout, calls)
    /\ lifecycle' = "boot_failed"
    /\ UNCHANGED <<ready, i, j>>

\* AttemptEnds with the loop one attempt short: for i in range(retries - 1)
AttemptEndsOneShort(calls) ==
    IF i + 1 < retries - 1
    THEN /\ pc' = "power_on"
         /\ i' = i + 1
         /\ last' = [last EXCEPT !.calls = calls]
         /\ UNCHANGED <<ready, j, lifecycle>>
    ELSE BootFails(calls)

\* the attempt is over without READY (polls used up, or an exception caught):
\* the next i of range(retries), or the end of the loop
AttemptEnds(calls) ==
    IF i + 1 < retries
    THEN /\ pc' = "power_on"
         /\ i' = i + 1
         /\ last' = [last EXCEPT !.calls = calls]
         /\ UNCHANGED <<ready, j, lifecycle>>
    ELSE BootFails(calls)

\* BootDevice making one attempt at least: for i in range(max(retries, 1))
BootDeviceAtLeastOnce(n) ==
    /\ pc = "idle"
    /\ IsFake(hw) => hw._ready_counter + n <= MaxPowerCycles
    /\ retries' = n
    /\ pc' = "power_on"
    /\ i' = 0
    /\ last' = Call("boot_device", IntVal(n), "running", NoExc, None, <<>>)
    /\ streak' = IF /\ IsFake(hw) /\ n >= 1
                    /\ streak = Streak(0, 0) \/ (streak.n = n /\ streak.k >= 1)
                 THEN Streak(n, streak.k + 1)
                 ELSE NoStreak
    /\ UNCHANGED <<hw, device_type, answer, ready, j, lifecycle>>

\* boot_device(retries=n) is called: the loop is entered, or skipped when n = 0
BootDevice(n) ==
    /\ pc = "idle"
    /\ IsFake(hw) => hw._ready_counter + n <= MaxPowerCycles
    /\ retries' = n
    /\ IF n > 0
       THEN /\ pc' = "power_on"
            /\ i' = 0
            /\ last' = Call("boot_device", IntVal(n), "running", NoExc, None, <<>>)
            /\ UNCHANGED <<ready, j, lifecycle>>
       ELSE /\ pc' = "idle"
            /\ last' = Raised("boot_device", IntVal(n), BootTimeout, <<>>)
            /\ lifecycle' = "boot_failed"
            /\ UNCHANGED <<ready, i, j>>
    /\ streak' = IF /\ IsFake(hw) /\ n >= 1
                    /\ streak = Streak(0, 0) \/ (streak.n = n /\ streak.k >= 1)
                 THEN Streak(n, streak.k + 1)
                 ELSE NoStreak
    /\ UNCHANGED <<hw, device_type, answer>>

\* self.hw.power_on() of attempt i
BootPowerOn ==
    /\ pc = "power_on"
    /\ \E o \in PowerOnOutcomes(hw) :
         LET calls == Append(last.calls, HwCall("power_on", "")) IN
         /\ hw' = o.hw
         /\ answer' = Answer("", o.exc)
         /\ IF o.exc = NoExc
            THEN /\ pc' = "status"
                 /\ j' = 0
                 /\ last' = [last EXCEPT !.calls = calls]
                 /\ UNCHANGED <<ready, i, lifecycle>>
            ELSE AttemptEnds(calls)
    /\ UNCHANGED <<device_type, retries, streak>>

\* BootStatus taking any answer for readiness: if status:
BootStatusAnyAnswer ==
    /\ pc = "status"
    /\ \E o \in StatusOutcomes(hw) :
         LET calls == Append(last.calls, HwCall("status", "")) IN
         /\ answer' = Answer(o.value, o.exc)
         /\ IF o.exc # NoExc
            THEN AttemptEnds(calls)
            ELSE IF o.value # ""
            THEN /\ ready' = TRUE
                 /\ pc' = "idle"
                 /\ last' = Returned("boot_device", last.arg, None, calls)
                 /\ lifecycle' = "booted"
                 /\ UNCHANGED <<i, j>>
            ELSE AttemptEnds(calls)
    /\ UNCHANGED <<hw, device_type, retries, streak>>

\* BootStatus polling once more per attempt: for j in range(11)
BootStatusExtraPoll ==
    /\ pc = "status"
    /\ \E o \in StatusOutcomes(hw) :
         LET calls == Append(last.calls, HwCall("status", "")) IN
         /\ answer' = Answer(o.value, o.exc)
         /\ IF o.exc # NoExc
            THEN AttemptEnds(calls)
            ELSE IF o.value = "READY"
            THEN /\ ready' = TRUE
                 /\ pc' = "idle"
                 /\ last' = Returned("boot_device", last.arg, None, calls)
                 /\ lifecycle' = "booted"
                 /\ UNCHANGED <<i, j>>
            ELSE IF j + 1 < PollsPerAttempt + 1
            THEN /\ j' = j + 1
                 /\ last' = [last EXCEPT !.calls = calls]
                 /\ UNCHANGED <<ready, pc, i, lifecycle>>
            ELSE AttemptEnds(calls)
    /\ UNCHANGED <<hw, device_type, retries, streak>>

\* BootStatus without the try/except: an exception of status() leaves boot_device
BootStatusLetsErrorsOut ==
    /\ pc = "status"
    /\ \E o \in StatusOutcomes(hw) :
         LET calls == Append(last.calls, HwCall("status", "")) IN
         /\ answer' = Answer(o.value, o.exc)
         /\ IF o.exc # NoExc
            THEN /\ pc' = "idle"
                 /\ last' = Raised("boot_device", last.arg, o.exc, calls)
                 /\ lifecycle' = "boot_failed"
                 /\ UNCHANGED <<ready, i, j>>
            ELSE IF o.value = "READY"
            THEN /\ ready' = TRUE
                 /\ pc' = "idle"
                 /\ last' = Returned("boot_device", last.arg, None, calls)
                 /\ lifecycle' = "booted"
                 /\ UNCHANGED <<i, j>>
            ELSE IF j + 1 < PollsPerAttempt
            THEN /\ j' = j + 1
                 /\ last' = [last EXCEPT !.calls = calls]
                 /\ UNCHANGED <<ready, pc, i, lifecycle>>
            ELSE AttemptEnds(calls)
    /\ UNCHANGED <<hw, device_type, retries, streak>>

\* BootStatus without the return: READY sets ready and the polling goes on
BootStatusNoReturn ==
    /\ pc = "status"
    /\ \E o \in StatusOutcomes(hw) :
         LET calls == Append(last.calls, HwCall("status", "")) IN
         /\ answer' = Answer(o.value, o.exc)
         /\ IF o.exc # NoExc
            THEN AttemptEnds(calls)
            ELSE IF j + 1 < PollsPerAttempt
            THEN /\ ready' = (ready \/ o.value = "READY")
                 /\ j' = j + 1
                 /\ last' = [last EXCEPT !.calls = calls]
                 /\ UNCHANGED <<pc, i, lifecycle>>
            ELSE AttemptEnds(calls)
    /\ UNCHANGED <<hw, device_type, retries, streak>>

\* status = self.hw.status() of poll j of attempt i, and what follows it
BootStatus ==
    /\ pc = "status"
    /\ \E o \in StatusOutcomes(hw) :
         LET calls == Append(last.calls, HwCall("status", "")) IN
         /\ answer' = Answer(o.value, o.exc)
         /\ IF o.exc # NoExc
            THEN AttemptEnds(calls)
            ELSE IF o.value = "READY"
            THEN /\ ready' = TRUE
                 /\ pc' = "idle"
                 /\ last' = Returned("boot_device", last.arg, None, calls)
                 /\ lifecycle' = "booted"
                 /\ UNCHANGED <<i, j>>
            ELSE IF j + 1 < PollsPerAttempt
            THEN /\ j' = j + 1
                 /\ last' = [last EXCEPT !.calls = calls]
                 /\ UNCHANGED <<ready, pc, i, lifecycle>>
            ELSE AttemptEnds(calls)
    /\ UNCHANGED <<hw, device_type, retries, streak>>

(* ----------------------------- send_command ---------------------------- *)

\* send_command without the readiness gate
SendCommandUngated(command) ==
    /\ pc = "idle"
    /\ \E o \in SendOutcomes(hw, command) :
         /\ Fits(o.hw)
         /\ hw' = o.hw
         /\ answer' = Answer(o.value, o.exc)
         /\ last' = IF o.exc # NoExc
                    THEN Raised("send_command", StrVal(command), o.exc,
                                <<HwCall("send", command)>>)
                    ELSE Returned("send_command", StrVal(command), StrVal(o.value),
                                  <<HwCall("send", command)>>)
    /\ UNCHANGED <<ready, device_type, pc, retries, i, j, lifecycle, streak>>

\* send_command returning the command it sent instead of the response
SendCommandEcho(command) ==
    /\ pc = "idle"
    /\ IF ~ready
       THEN /\ last' = Raised("send_command", StrVal(command), ControllerNotReady, <<>>)
            /\ UNCHANGED <<hw, answer>>
       ELSE \E o \in SendOutcomes(hw, command) :
              /\ Fits(o.hw)
              /\ hw' = o.hw
              /\ answer' = Answer(o.value, o.exc)
              /\ last' = IF o.exc # NoExc
                         THEN Raised("send_command", StrVal(command), o.exc,
                                     <<HwCall("send", command)>>)
                         ELSE Returned("send_command", StrVal(command), StrVal(command),
                                       <<HwCall("send", command)>>)
    /\ UNCHANGED <<ready, device_type, pc, retries, i, j, lifecycle, streak>>

\* send_command turning an error of hw.send into DeviceNotReadyError
SendCommandWrapsError(command) ==
    /\ pc = "idle"
    /\ IF ~ready
       THEN /\ last' = Raised("send_command", StrVal(command), ControllerNotReady, <<>>)
            /\ UNCHANGED <<hw, answer>>
       ELSE \E o \in SendOutcomes(hw, command) :
              /\ Fits(o.hw)
              /\ hw' = o.hw
              /\ answer' = Answer(o.value, o.exc)
              /\ last' = IF o.exc # NoExc
                         THEN Raised("send_command", StrVal(command), ControllerNotReady,
                                     <<HwCall("send", command)>>)
                         ELSE Returned("send_command", StrVal(command), StrVal(o.value),
                                       <<HwCall("send", command)>>)
    /\ UNCHANGED <<ready, device_type, pc, retries, i, j, lifecycle, streak>>

\* send_command clearing ready when hw.send raises
SendCommandDropsReady(command) ==
    /\ pc = "idle"
    /\ IF ~ready
       THEN /\ last' = Raised("send_command", StrVal(command), ControllerNotReady, <<>>)
            /\ UNCHANGED <<hw, answer, ready>>
       ELSE \E o \in SendOutcomes(hw, command) :
              /\ Fits(o.hw)
              /\ hw' = o.hw
              /\ answer' = Answer(o.value, o.exc)
              /\ ready' = (o.exc = NoExc)
              /\ last' = IF o.exc # NoExc
                         THEN Raised("send_command", StrVal(command), o.exc,
                                     <<HwCall("send", command)>>)
                         ELSE Returned("send_command", StrVal(command), StrVal(o.value),
                                       <<HwCall("send", command)>>)
    /\ UNCHANGED <<device_type, pc, retries, i, j, lifecycle, streak>>

SendCommand(command) ==
    /\ pc = "idle"
    /\ IF ~ready
       THEN /\ last' = Raised("send_command", StrVal(command), ControllerNotReady, <<>>)
            /\ UNCHANGED <<hw, answer>>
       ELSE \E o \in SendOutcomes(hw, command) :
              /\ Fits(o.hw)
              /\ hw' = o.hw
              /\ answer' = Answer(o.value, o.exc)
              /\ last' = IF o.exc # NoExc
                         THEN Raised("send_command", StrVal(command), o.exc,
                                     <<HwCall("send", command)>>)
                         ELSE Returned("send_command", StrVal(command), StrVal(o.value),
                                       <<HwCall("send", command)>>)
    /\ UNCHANGED <<ready, device_type, pc, retries, i, j, lifecycle, streak>>

(* ----------------------------- check_motion ---------------------------- *)

\* check_motion with the readiness check before the type check
CheckMotionReadyFirst ==
    /\ pc = "idle"
    /\ IF ~ready
       THEN /\ last' = Raised("check_motion", None, ControllerNotReady, <<>>)
            /\ UNCHANGED <<hw, answer>>
       ELSE IF ~Contains("Motion", device_type)
       THEN /\ last' = Raised("check_motion", None, NoMotionSupport, <<>>)
            /\ UNCHANGED <<hw, answer>>
       ELSE \E o \in SendOutcomes(hw, "GET_MOTION") :
              /\ Fits(o.hw)
              /\ hw' = o.hw
              /\ answer' = Answer(o.value, o.exc)
              /\ last' = IF o.exc # NoExc
                         THEN Raised("check_motion", None, o.exc,
                                     <<HwCall("send", "GET_MOTION")>>)
                         ELSE Returned("check_motion", None,
                                       BoolVal(o.value = "MOTION:YES"),
                                       <<HwCall("send", "GET_MOTION")>>)
    /\ UNCHANGED <<ready, device_type, pc, retries, i, j, lifecycle, streak>>

\* check_motion comparing the response with the bare word: response == "YES"
CheckMotionBareYes ==
    /\ pc = "idle"
    /\ IF ~Contains("Motion", device_type)
       THEN /\ last' = Raised("check_motion", None, NoMotionSupport, <<>>)
            /\ UNCHANGED <<hw, answer>>
       ELSE IF ~ready
       THEN /\ last' = Raised("check_motion", None, ControllerNotReady, <<>>)
            /\ UNCHANGED <<hw, answer>>
       ELSE \E o \in SendOutcomes(hw, "GET_MOTION") :
              /\ Fits(o.hw)
              /\ hw' = o.hw
              /\ answer' = Answer(o.value, o.exc)
              /\ last' = IF o.exc # NoExc
                         THEN Raised("check_motion", None, o.exc,
                                     <<HwCall("send", "GET_MOTION")>>)
                         ELSE Returned("check_motion", None,
                                       BoolVal(o.value = "YES"),
                                       <<HwCall("send", "GET_MOTION")>>)
    /\ UNCHANGED <<ready, device_type, pc, retries, i, j, lifecycle, streak>>

CheckMotion ==
    /\ pc = "idle"
    /\ IF ~Contains("Motion", device_type)
       THEN /\ last' = Raised("check_motion", None, NoMotionSupport, <<>>)
            /\ UNCHANGED <<hw, answer>>
       ELSE IF ~ready
       THEN /\ last' = Raised("check_motion", None, ControllerNotReady, <<>>)
            /\ UNCHANGED <<hw, answer>>
       ELSE \E o \in SendOutcomes(hw, "GET_MOTION") :
              /\ Fits(o.hw)
              /\ hw' = o.hw
              /\ answer' = Answer(o.value, o.exc)
              /\ last' = IF o.exc # NoExc
                         THEN Raised("check_motion", None, o.exc,
                                     <<HwCall("send", "GET_MOTION")>>)
                         ELSE Returned("check_motion", None,
                                       BoolVal(o.value = "MOTION:YES"),
                                       <<HwCall("send", "GET_MOTION")>>)
    /\ UNCHANGED <<ready, device_type, pc, retries, i, j, lifecycle, streak>>

(* ---------------------------- check_contact ---------------------------- *)

\* ContactOf taking the first part: response.split(":")[0]
ContactOfFirstPart(response) ==
    LET parts == Split(response, ":")
    IN  [value |-> StrVal(parts[1]), exc |-> NoExc]

\* ContactOf taking the last part: response.split(":")[-1]
ContactOfLastPart(response) ==
    LET parts == Split(response, ":")
    IN  IF Len(parts) < 2
        THEN [value |-> None, exc |-> SplitIndexError]
        ELSE [value |-> StrVal(parts[Len(parts)]), exc |-> NoExc]

\* response.split(":")[1]
ContactOf(response) ==
    LET parts == Split(response, ":")
    IN  IF Len(parts) < 2
        THEN [value |-> None, exc |-> SplitIndexError]
        ELSE [value |-> StrVal(parts[2]), exc |-> NoExc]

CheckContact ==
    /\ pc = "idle"
    /\ IF ~Contains("Contact", device_type)
       THEN /\ last' = Raised("check_contact", None, NoContactSupport, <<>>)
            /\ UNCHANGED <<hw, answer>>
       ELSE IF ~ready
       THEN /\ last' = Raised("check_contact", None, ControllerNotReady, <<>>)
            /\ UNCHANGED <<hw, answer>>
       ELSE \E o \in SendOutcomes(hw, "GET_CONTACT") :
              /\ Fits(o.hw)
              /\ hw' = o.hw
              /\ answer' = Answer(o.value, o.exc)
              /\ last' = IF o.exc # NoExc
                         THEN Raised("check_contact", None, o.exc,
                                     <<HwCall("send", "GET_CONTACT")>>)
                         ELSE IF ContactOf(o.value).exc # NoExc
                         THEN Raised("check_contact", None, ContactOf(o.value).exc,
                                     <<HwCall("send", "GET_CONTACT")>>)
                         ELSE Returned("check_contact", None, ContactOf(o.value).value,
                                       <<HwCall("send", "GET_CONTACT")>>)
    /\ UNCHANGED <<ready, device_type, pc, retries, i, j, lifecycle, streak>>

(* ------------------------------- shutdown ------------------------------ *)

\* shutdown that powers the hardware off and forgets to clear ready
ShutdownKeepsReady ==
    /\ pc = "idle"
    /\ \E o \in PowerOffOutcomes(hw) :
         /\ hw' = o.hw
         /\ answer' = Answer("", o.exc)
         /\ IF o.exc # NoExc
            THEN /\ last' = Raised("shutdown", None, o.exc, <<HwCall("power_off", "")>>)
                 /\ lifecycle' = "shutdown_failed"
            ELSE /\ last' = Returned("shutdown", None, None, <<HwCall("power_off", "")>>)
                 /\ lifecycle' = "shut_down"
    /\ UNCHANGED <<ready, device_type, pc, retries, i, j, streak>>

\* self.hw.power_off(), then self.ready = False; an exception of power_off()
\* leaves shutdown before the assignment
Shutdown ==
    /\ pc = "idle"
    /\ \E o \in PowerOffOutcomes(hw) :
         /\ hw' = o.hw
         /\ answer' = Answer("", o.exc)
         /\ IF o.exc # NoExc
            THEN /\ last' = Raised("shutdown", None, o.exc, <<HwCall("power_off", "")>>)
                 /\ lifecycle' = "shutdown_failed"
                 /\ UNCHANGED ready
            ELSE /\ ready' = FALSE
                 /\ last' = Returned("shutdown", None, None, <<HwCall("power_off", "")>>)
                 /\ lifecycle' = "shut_down"
    /\ UNCHANGED <<device_type, pc, retries, i, j, streak>>

(* ------------------- the test's hold on the doubles -------------------- *)

\* FakeMotionSensor.set_motion_detected(detected)
SetMotionDetected(detected) ==
    /\ pc = "idle"
    /\ hw.cls = "FakeMotionSensor"
    /\ hw' = [hw EXCEPT !._motion_detected = detected]
    /\ last' = Returned("set_motion_detected", BoolVal(detected), None, <<>>)
    /\ UNCHANGED <<ready, device_type, pc, retries, i, j, lifecycle, answer, streak>>

\* FakeContactSensor.set_contact_state(state)
SetContactState(state) ==
    /\ pc = "idle"
    /\ hw.cls = "FakeContactSensor"
    /\ IF state \notin {"OPEN", "CLOSED"}
       THEN /\ last' = Raised("set_contact_state", StrVal(state), BadContactState, <<>>)
            /\ UNCHANGED hw
       ELSE /\ hw' = [hw EXCEPT !._contact_state = state]
            /\ last' = Returned("set_contact_state", StrVal(state), None, <<>>)
    /\ UNCHANGED <<ready, device_type, pc, retries, i, j, lifecycle, answer, streak>>

(* ---------------------------- specification ---------------------------- *)

Next ==
    \/ \E n \in 0..MaxRetries : BootDevice(n)
    \/ BootPowerOn
    \/ BootStatus
    \/ \E command \in Commands : SendCommand(command)
    \/ CheckMotion
    \/ CheckContact
    \/ Shutdown
    \/ \E detected \in BOOLEAN : SetMotionDetected(detected)
    \/ \E state \in ContactStates : SetContactState(state)

Spec == Init /\ [][Next]_vars

\* boot_device runs on: the calling thread goes through its loop, and each
\* power_on() and status() call returns or raises
FairSpec == Spec /\ WF_vars(BootPowerOn) /\ WF_vars(BootStatus)

TypeOK ==
    /\ ready \in BOOLEAN
    /\ pc \in {"idle", "power_on", "status"}
    /\ device_type = hw.cls
    /\ i \in 0..MaxRetries
    /\ j \in 0..(PollsPerAttempt - 1)
    /\ lifecycle \in {"constructed", "booted", "boot_failed", "shut_down", "shutdown_failed"}

(* ------------------------- reading the last call ----------------------- *)

\* how many of the hardware calls of the last call were calls of name
CountCalls(name) == Cardinality({k \in 1..Len(last.calls) : last.calls[k][1] = name})

\* a boot_device call has just ended
BootEnded == pc = "idle" /\ last.op = "boot_device"

\* the double had never been powered on when the last boot_device was called
FreshAtBoot == IsFake(hw) /\ hw._ready_counter = CountCalls("power_on")

(* -------------------------------- C1 ----------------------------------- *)

\* C1: the first boot_device(retries=n), n >= 1, on a fresh controller over a
\* fresh double with ready_after = r < n returns normally with ready = TRUE.
C1_BootSucceedsWithinRetries ==
    (BootEnded /\ FreshAtBoot /\ last.arg.n >= 1 /\ hw._ready_after < last.arg.n)
        => (last.outcome = "return" /\ ready = TRUE)

\* ready_after = 2 and retries = 3: the boot has succeeded on the third power-on
C1_Witness ==
    /\ BootEnded /\ FreshAtBoot
    /\ hw._ready_after = DelayedReadyAfter /\ last.arg.n = DefaultRetries
    /\ hw._ready_counter = DelayedReadyAfter + 1
    /\ last.outcome = "return" /\ ready = TRUE

(* -------------------------------- C2 ----------------------------------- *)

\* C2 as stated: every boot_device(retries=n) on a double with
\* ready_after = r >= n raises DeviceTimeoutError and leaves ready = FALSE.
\* A double keeps its power-on count between calls, so a later boot may find
\* it past its threshold and return although r >= n.
C2_BootTimesOutBeyondRetries ==
    (BootEnded /\ IsFake(hw) /\ hw._ready_after >= last.arg.n)
        => (last.outcome = "raise" /\ last.exc = BootTimeout /\ ready = FALSE)

\* C2 for the first boot: boot_device(retries=n) on a double that had never
\* been powered on, with ready_after = r >= n, raises DeviceTimeoutError and
\* leaves ready = FALSE.
C2_FirstBootTimesOutBeyondRetries ==
    (BootEnded /\ FreshAtBoot /\ hw._ready_after >= last.arg.n)
        => (last.outcome = "raise" /\ last.exc = BootTimeout /\ ready = FALSE)

\* ready_after = 10 and retries = 3: the boot has timed out after 3 power-ons
C2_Witness ==
    /\ BootEnded /\ FreshAtBoot
    /\ hw._ready_after = FailingReadyAfter /\ last.arg.n = DefaultRetries
    /\ hw._ready_counter = DefaultRetries
    /\ last.exc.type = "DeviceTimeoutError" /\ ready = FALSE

(* -------------------------------- C3 ----------------------------------- *)

\* C3: between calls, ready = TRUE if and only if the most recent boot_device
\* call observed "READY" and no shutdown has occurred since that call.
C3_ReadyIffLastBootObservedReady ==
    pc = "idle" => (ready = TRUE <=> lifecycle = "booted")

(* -------------------------------- C4 ----------------------------------- *)

\* C4: when a boot_device call has raised DeviceTimeoutError, ready = FALSE,
\* whatever the state of the controller was when it was called.
C4_FailedBootLeavesNotReady ==
    (BootEnded /\ last.outcome = "raise") => ready = FALSE

(* -------------------------------- C5 ----------------------------------- *)

MotionCapable == Contains("Motion", device_type)

ContactCapable == Contains("Contact", device_type)

\* C5: while ready = FALSE, every send_command(c), every check_motion on a
\* motion-capable device and every check_contact on a contact-capable device
\* raises DeviceNotReadyError without calling hw.send.
C5_NotReadyRejectsCalls ==
    [][(/\ ready = FALSE
        /\ \/ \E command \in Commands : SendCommand(command)
           \/ MotionCapable /\ CheckMotion
           \/ ContactCapable /\ CheckContact)
       => (/\ last'.outcome = "raise"
           /\ last'.exc = ControllerNotReady
           /\ last'.calls = <<>>
           /\ hw' = hw)]_vars

\* send_command has been rejected after a failed boot
C5_Witness ==
    /\ pc = "idle" /\ ready = FALSE /\ lifecycle = "boot_failed"
    /\ last.op = "send_command" /\ last.exc.type = "DeviceNotReadyError"
    /\ last.calls = <<>>

(* -------------------------------- C6 ----------------------------------- *)

\* C6: every shutdown calls hw.power_off(), returns normally and leaves
\* ready = FALSE (the double unpowered); a send_command made after it, with
\* no boot_device in between, raises DeviceNotReadyError.
C6_ShutdownClearsReady ==
    [][(Shutdown
           => (/\ last'.outcome = "return"
               /\ last'.calls = <<HwCall("power_off", "")>>
               /\ ready' = FALSE
               /\ IsFake(hw) => hw'._power = FALSE))
       /\ ((/\ lifecycle \in {"shut_down", "shutdown_failed"}
            /\ \E command \in Commands : SendCommand(command))
           => (last'.outcome = "raise" /\ last'.exc = ControllerNotReady))]_vars

(* -------------------------------- C7 ----------------------------------- *)

\* C7: after a successful boot_device, send_command(c) calls hw.send(c) once,
\* with c unchanged, and returns what hw.send returns; on the doubles
\* send_command("PING") returns "ACK:PING"; ready stays TRUE.
C7_SendCommandForwards ==
    [][\A command \in Commands :
         (lifecycle = "booted" /\ SendCommand(command))
            => (/\ last'.calls = <<HwCall("send", command)>>
                /\ ready' = TRUE
                /\ \E o \in SendOutcomes(hw, command) :
                     /\ hw' = o.hw
                     /\ last'.exc = o.exc
                     /\ o.exc = NoExc => last'.value = StrVal(o.value)
                /\ IsFake(hw) =>
                     /\ hw'.commands = Append(hw.commands, command)
                     /\ last'.outcome = "return"
                     /\ command = "PING" => last'.value = StrVal("ACK:PING"))]_vars

\* send_command("PING") has returned "ACK:PING" on a double
C7_Witness ==
    /\ pc = "idle" /\ lifecycle = "booted" /\ ready = TRUE /\ IsFake(hw)
    /\ last.op = "send_command" /\ last.arg = StrVal("PING")
    /\ last.value = StrVal("ACK:PING")
    /\ hw.commands # <<>> /\ hw.commands[Len(hw.commands)] = "PING"

(* -------------------------------- C8 ----------------------------------- *)

\* C8: check_motion on a device whose type lacks "Motion" and check_contact on
\* a device whose type lacks "Contact" raise TypeError, ready or not, without
\* calling hw.send and without changing ready.
C8_TypeMismatchFirst ==
    [][((~MotionCapable /\ CheckMotion)
           => (/\ last'.outcome = "raise" /\ last'.exc = NoMotionSupport
               /\ last'.exc.type = "TypeError"
               /\ last'.calls = <<>> /\ hw' = hw /\ ready' = ready))
       /\ ((~ContactCapable /\ CheckContact)
           => (/\ last'.outcome = "raise" /\ last'.exc = NoContactSupport
               /\ last'.exc.type = "TypeError"
               /\ last'.calls = <<>> /\ hw' = hw /\ ready' = ready))]_vars

\* check_motion on a contact sensor that is not ready has raised TypeError
C8_Witness ==
    /\ pc = "idle" /\ ready = FALSE /\ hw.cls = "FakeContactSensor"
    /\ last.op = "check_motion" /\ last.exc.type = "TypeError"

(* -------------------------------- C9 ----------------------------------- *)

\* C9: on a booted FakeMotionSensor, check_motion sends exactly "GET_MOTION"
\* and returns TRUE if and only if the motion state last set on the double is
\* TRUE (FALSE when none was set), that is iff the response is "MOTION:YES".
C9_CheckMotionRoundTrip ==
    [][(hw.cls = "FakeMotionSensor" /\ ready = TRUE /\ CheckMotion)
       => (/\ last'.outcome = "return"
           /\ last'.calls = <<HwCall("send", "GET_MOTION")>>
           /\ hw'.commands = Append(hw.commands, "GET_MOTION")
           /\ last'.value = BoolVal(hw._motion_detected)
           /\ last'.value.b = (FakeSend(hw, "GET_MOTION").value = "MOTION:YES"))]_vars

\* check_motion has returned TRUE after set_motion_detected(True)
C9_Witness ==
    /\ pc = "idle" /\ ready = TRUE /\ hw.cls = "FakeMotionSensor"
    /\ last.op = "check_motion" /\ last.value = BoolVal(TRUE)
    /\ hw._motion_detected = TRUE

(* -------------------------------- C10 ---------------------------------- *)

\* C10: on a booted FakeContactSensor, check_contact returns "OPEN" or
\* "CLOSED", the state last set successfully on the double ("CLOSED" when none
\* was); set_contact_state with another state raises ValueError and leaves
\* the state unchanged.
C10_CheckContactRoundTrip ==
    [][((hw.cls = "FakeContactSensor" /\ ready = TRUE /\ CheckContact)
           => (/\ last'.outcome = "return"
               /\ last'.value.kind = "str"
               /\ last'.value.s \in {"OPEN", "CLOSED"}
               /\ last'.value.s = hw._contact_state))
       /\ \A state \in ContactStates :
            SetContactState(state)
               => IF state \in {"OPEN", "CLOSED"}
                  THEN last'.outcome = "return" /\ hw'._contact_state = state
                  ELSE last'.exc.type = "ValueError" /\ hw' = hw]_vars

\* check_contact has returned "OPEN" after set_contact_state("OPEN")
C10_Witness ==
    /\ pc = "idle" /\ ready = TRUE /\ hw.cls = "FakeContactSensor"
    /\ last.op = "check_contact" /\ last.value = StrVal("OPEN")

(* -------------------------------- C11 ---------------------------------- *)

\* C11 as stated: a boot_device(retries=n) call, n >= 1, makes at most n * 10
\* power_on and status calls.
C11_AtMostTenCallsPerRetry ==
    (last.op = "boot_device" /\ last.arg.n >= 1)
        => Len(last.calls) <= last.arg.n * 10

\* C11 as amended: a boot_device(retries=n) call makes at most n power_on
\* calls and at most n * 10 status calls, n * 11 hardware calls in all, and
\* no other hardware call.
C11_HardwareCallBudget ==
    last.op = "boot_device"
        => /\ CountCalls("power_on") <= last.arg.n
           /\ CountCalls("status") <= last.arg.n * PollsPerAttempt
           /\ Len(last.calls) = CountCalls("power_on") + CountCalls("status")
           /\ Len(last.calls) <= last.arg.n * (PollsPerAttempt + 1)

\* the worst case: 3 attempts of 1 power_on and 10 polls each, never READY
C11_Witness ==
    /\ BootEnded /\ last.arg.n = DefaultRetries /\ last.outcome = "raise"
    /\ CountCalls("power_on") = DefaultRetries
    /\ CountCalls("status") = DefaultRetries * PollsPerAttempt

(* -------------------------------- C12 ---------------------------------- *)

\* C12: when power_on() or status() raises in attempt i of boot_device, the
\* attempt is over: the next hardware call is the power_on() of attempt i + 1
\* if there is one, else DeviceTimeoutError is raised; boot_device raises
\* nothing but DeviceTimeoutError, and only after retries attempts.
C12_HardwareErrorsConsumeAttempt ==
    /\ [][((BootPowerOn \/ BootStatus) /\ answer'.exc # NoExc)
            => IF i + 1 < retries
               THEN /\ pc' = "power_on" /\ i' = i + 1
                    /\ last'.outcome = "running" /\ last'.exc = NoExc
               ELSE /\ pc' = "idle"
                    /\ last'.outcome = "raise" /\ last'.exc = BootTimeout]_vars
    /\ []((BootEnded /\ last.outcome = "raise")
            => (last.exc = BootTimeout /\ CountCalls("power_on") = last.arg.n))

\* status() has raised in the first attempt and the second attempt is next
C12_Witness ==
    /\ pc = "power_on" /\ i = 1 /\ answer.exc = HardwareError
    /\ last.outcome = "running"
    /\ last.calls[Len(last.calls)] = HwCall("status", "")

(* -------------------------------- C13 ---------------------------------- *)

\* the hardware calls of a boot_device call so far are attempts of one
\* power_on followed by at most 10 polls of status
AttemptsWellFormed ==
    /\ last.calls # <<>> => last.calls[1] = HwCall("power_on", "")
    /\ \A k \in 1..Len(last.calls) :
         k + PollsPerAttempt <= Len(last.calls)
            => \E m \in k..(k + PollsPerAttempt) : last.calls[m] = HwCall("power_on", "")

\* C13: the first poll of boot_device that returns "READY" sets ready and
\* ends the call with no further hardware call; boot_device returns only so;
\* each attempt is one power_on followed by at most 10 polls.
C13_ReadyEndsBoot ==
    /\ [][(BootStatus /\ answer' = Answer("READY", NoExc))
            => (/\ ready' = TRUE /\ pc' = "idle"
                /\ last'.outcome = "return"
                /\ last'.calls = Append(last.calls, HwCall("status", "")))]_vars
    /\ [](last.op = "boot_device" => AttemptsWellFormed)
    /\ []((BootEnded /\ last.outcome = "return")
            => (/\ ready = TRUE /\ answer = Answer("READY", NoExc)
                /\ last.calls[Len(last.calls)] = HwCall("status", "")))

\* READY came in the second attempt, after a first attempt of 10 polls
C13_Witness ==
    /\ BootEnded /\ last.outcome = "return" /\ ready = TRUE
    /\ CountCalls("power_on") = 2
    /\ CountCalls("status") > PollsPerAttempt

(* -------------------------------- C14 ---------------------------------- *)

\* a step of one of the three calls that go through hw.send
SendingCall ==
    \/ \E command \in Commands : SendCommand(command)
    \/ CheckMotion
    \/ CheckContact

\* C14: when ready = TRUE and hw.send raises during send_command,
\* check_motion or check_contact, the call raises that same error, has called
\* hw.send exactly once, and leaves ready = TRUE.
C14_SendErrorsPropagate ==
    [][(ready = TRUE /\ SendingCall /\ last'.calls # <<>> /\ answer'.exc # NoExc)
        => (/\ last'.outcome = "raise"
            /\ last'.exc = answer'.exc
            /\ Len(last'.calls) = 1 /\ last'.calls[1][1] = "send"
            /\ ready' = TRUE)]_vars

\* check_contact has raised the error that hw.send raised; ready is still TRUE
C14_Witness ==
    /\ pc = "idle" /\ ready = TRUE
    /\ last.op = "check_contact" /\ last.outcome = "raise"
    /\ last.exc = HardwareError /\ answer.exc = HardwareError
    /\ last.calls = <<HwCall("send", "GET_CONTACT")>>

(* -------------------------------- C15 ---------------------------------- *)

\* the text of s after its first ":"
AfterFirstColon(s) == SubSeq(s, FindFrom(s, ":", 1) + 1, Len(s))

\* the text of s between its first ":" and its next ":", or the end of s
BetweenColons(s) ==
    LET a == FindFrom(s, ":", 1)
        b == FindFrom(s, ":", a + 1)
    IN  SubSeq(s, a + 1, IF b = 0 THEN Len(s) ELSE b - 1)

\* check_contact has just received from hw.send a response with a ":" in it
ContactAnswered ==
    /\ ContactCapable /\ ready = TRUE /\ CheckContact
    /\ last'.calls # <<>> /\ answer'.exc = NoExc
    /\ FindFrom(answer'.value, ":", 1) > 0

\* C15 as stated: on a ready contact-capable device, for every response with
\* a ":" in it, check_contact returns the whole text after the first ":".
C15_ReturnsWholeRemainder ==
    [][ContactAnswered
        => (/\ last'.outcome = "return"
            /\ last'.value = StrVal(AfterFirstColon(answer'.value)))]_vars

\* C15 as amended: on a ready contact-capable device, for every response with
\* a ":" in it, check_contact returns the text between the first ":" and the
\* next ":" (or the end of the response), whatever that text is.
C15_ReturnsSecondField ==
    [][ContactAnswered
        => (/\ last'.outcome = "return"
            /\ last'.value = StrVal(BetweenColons(answer'.value)))]_vars

\* the response "CONTACT:OPEN:STUCK" has given "OPEN"
C15_Witness ==
    /\ pc = "idle" /\ ready = TRUE /\ last.op = "check_contact"
    /\ answer = Answer("CONTACT:OPEN:STUCK", NoExc)
    /\ last.value = StrVal("OPEN")

(* -------------------------------- C16 ---------------------------------- *)

\* C16: ready goes from FALSE to TRUE only in a boot_device poll that
\* observes "READY" and from TRUE to FALSE only in shutdown; send_command,
\* check_motion and check_contact change neither ready nor device_type nor
\* the hardware the controller holds.
C16_ReadyChangesOnlyByBootAndShutdown ==
    [][/\ (ready = FALSE /\ ready' = TRUE)
          => (BootStatus /\ answer' = Answer("READY", NoExc))
       /\ (ready = TRUE /\ ready' = FALSE) => Shutdown
       /\ SendingCall
          => (ready' = ready /\ device_type' = device_type /\ hw'.cls = hw.cls)
       /\ device_type' = device_type]_vars

\* send_command has failed on a hardware error after a boot: ready is still TRUE
C16_Witness ==
    /\ pc = "idle" /\ ready = TRUE /\ lifecycle = "booted"
    /\ last.op = "send_command" /\ last.outcome = "raise"
    /\ device_type = hw.cls

(* -------------------------------- C17 ---------------------------------- *)

\* C17: every boot_device(retries=n) call ends, n >= 0, whatever the hardware
\* answers: by returning with ready = TRUE or by raising DeviceTimeoutError,
\* after at most n attempts of at most 10 polls each; with n = 0 it raises
\* DeviceTimeoutError without a hardware call.
C17_BootTerminates ==
    /\ (last.op = "boot_device" /\ last.outcome = "running") ~> BootEnded
    /\ [](BootEnded
            => \/ last.outcome = "return" /\ ready = TRUE
               \/ last.outcome = "raise" /\ last.exc = BootTimeout)
    /\ [](last.op = "boot_device"
            => (/\ CountCalls("power_on") <= last.arg.n
                /\ AttemptsWellFormed
                /\ last.outcome = "running" <=> pc # "idle"))
    /\ []((last.op = "boot_device" /\ last.arg.n = 0)
            => (BootEnded /\ last.exc = BootTimeout /\ last.calls = <<>>))

\* boot_device(retries=0) has raised DeviceTimeoutError without a hardware call
C17_Witness ==
    /\ BootEnded /\ last.arg.n = 0 /\ last.calls = <<>>
    /\ last.outcome = "raise" /\ last.exc = BootTimeout

(* -------------------------------- C18 ---------------------------------- *)

\* C18: on the doubles, driven through the controller alone, ready = TRUE
\* implies that the double is powered and past its readiness threshold; so a
\* send_command that the controller lets through never raises the double's
\* "not powered on" or "not ready" error.
C18_ReadyImpliesDoubleReady ==
    /\ []((IsFake(hw) /\ ready = TRUE)
            => (hw._power = TRUE /\ hw._ready_counter > hw._ready_after))
    /\ [][\A command \in Commands :
            (IsFake(hw) /\ ready = TRUE /\ SendCommand(command))
               => (/\ last'.outcome = "return"
                   /\ answer'.exc \notin {HwNotPowered, HwNotReady})]_vars

\* a double shut down and booted again has answered a send_command
C18_Witness ==
    /\ pc = "idle" /\ IsFake(hw) /\ ready = TRUE
    /\ hw._ready_counter > hw._ready_after + 1
    /\ last.op = "send_command" /\ last.outcome = "return"

(* -------------------------------- C19 ---------------------------------- *)

\* the power-on count of the double when the last boot_device was called
CounterAtBoot == hw._ready_counter - CountCalls("power_on")

\* C19: the power-on count of a double never goes down, so failed boots add
\* up: the k-th boot_device(retries=n) call in a row, n >= 1, on a double with
\* ready_after = r succeeds exactly when k * n > r; and a boot_device called
\* on a double already past its threshold (after a successful boot and a
\* shutdown) succeeds on its first poll.
C19_FailedBootsAccumulate ==
    /\ [][IsFake(hw) => hw'._ready_counter >= hw._ready_counter]_vars
    /\ []((BootEnded /\ IsFake(hw) /\ streak.k >= 1)
            => (/\ streak.n = last.arg.n
                /\ last.outcome = "return" <=> streak.k * streak.n > hw._ready_after))
    /\ []((BootEnded /\ IsFake(hw) /\ last.arg.n >= 1
               /\ CounterAtBoot > hw._ready_after)
            => (/\ last.outcome = "return"
                /\ last.calls = <<HwCall("power_on", ""), HwCall("status", "")>>))

\* ready_after = 2, retries = 2: the first boot failed, the second succeeded
C19_Witness ==
    /\ BootEnded /\ IsFake(hw) /\ hw._ready_after = DelayedReadyAfter
    /\ streak = Streak(2, 2) /\ hw._ready_counter = DelayedReadyAfter + 1
    /\ CounterAtBoot = 2
    /\ last.outcome = "return" /\ ready = TRUE

====
